---- MODULE Spec2Model ----
(***************************************************************************)
(* Model of src/parser/internal.ts: the conversion of a marked token list  *)
(* into Slack blocks (parseBlocks and the converters it dispatches to).    *)
(*                                                                         *)
(* Strings are sequences of one-character strings, so that concatenation,  *)
(* startsWith, includes, replace and join are computed, not assumed.       *)
(* A field that is undefined/null in the source is either absent from the  *)
(* record's DOMAIN (structured fields: tokens, items, header, rows) or the *)
(* value Nil (string fields: href, title, text, @_src, @_alt).             *)
(***************************************************************************)
EXTENDS Integers, Sequences, FiniteSets, TLC

VARIABLES
  tokens,    \* parseBlocks' argument: the top-level token list
  state,     \* the parseBlocks promise: "idle", "pending", "resolved", "rejected"
  conv,      \* per token, the state of its parseToken promise
  values,    \* Promise.all's array of fulfilled values, by token index
  stored,    \* how many values Promise.all has stored
  probes,    \* log of the axios.head calls issued, in issue order
  result,    \* the block list parseBlocks resolved with
  element,   \* the single token handed to a synchronous converter
  options,   \* the ParsingOptions handed to it
  out,       \* the converter's result
  applied    \* whether the converter has run

vars == <<tokens, state, conv, values, stored, probes, result,
          element, options, out, applied>>


----------------------------------------------------------------------------
(* Bounds of the model.                                                    *)

MaxNodes == 2
MaxPhrasing == 3
MaxQuoteChildren == 2
MaxQuotePhrasing == 2
MaxItems == 3
MaxCols == 2
MaxRows == 2

----------------------------------------------------------------------------
(* Strings.                                                                *)

Nil == <<"<nil>">>

NL == "\n"

\* the grave accent U+0060, written as a token (it cannot appear in a string)
Backtick == "BT"

Truthy(s) == s # Nil /\ s # <<>>

\* a ?? b
Coalesce(a, b) == IF a # Nil THEN a ELSE b

\* a || b
OrElse(a, b) == IF Truthy(a) THEN a ELSE b

\* an undefined value interpolated into a template literal
Interp(s) == IF s = Nil THEN <<"u","n","d","e","f","i","n","e","d">> ELSE s

startsWith(s, p) == Len(s) >= Len(p) /\ SubSeq(s, 1, Len(p)) = p

includes(s, c) == \E k \in 1..Len(s) : s[k] = c

\* String.prototype.replace with a pattern that lacks the g flag
replaceFirst(s, c, by) ==
  IF \E k \in 1..Len(s) : s[k] = c
  THEN LET p == CHOOSE k \in 1..Len(s) : s[k] = c /\ \A j \in 1..(k - 1) : s[j] # c
       IN SubSeq(s, 1, p - 1) \o by \o SubSeq(s, p + 1, Len(s))
  ELSE s

RECURSIVE replaceAll(_, _, _)
replaceAll(s, c, by) ==
  IF s = <<>> THEN <<>>
  ELSE (IF Head(s) = c THEN by ELSE <<Head(s)>>) \o replaceAll(Tail(s), c, by)

RECURSIVE join(_, _)
join(parts, sep) ==
  IF parts = <<>> THEN <<>>
  ELSE IF Len(parts) = 1 THEN parts[1]
  ELSE parts[1] \o sep \o join(Tail(parts), sep)

RECURSIVE flat(_)
flat(lists) == IF lists = <<>> THEN <<>> ELSE Head(lists) \o flat(Tail(lists))

Digit(d) == <<"0","1","2","3","4","5","6","7","8","9">>[d + 1]

RECURSIVE numberToString(_)
numberToString(n) ==
  IF n < 10 THEN <<Digit(n)>> ELSE numberToString(n \div 10) \o <<Digit(n % 10)>>

Has(e, f) == f \in DOMAIN e

----------------------------------------------------------------------------
(* Block constructors of ../slack.                                         *)

section(text) == [type |-> "section", text |-> text]

divider == [type |-> "divider"]

header(text) == [type |-> "header", text |-> text]

image(url, altText, title) ==
  [type |-> "image", image_url |-> url, alt_text |-> altText, title |-> title]

isSectionBlock(block) == block.type = "section"

----------------------------------------------------------------------------
(* Reducers over phrasing tokens.                                          *)

RECURSIVE parsePlainText(_), PlainTextChildren(_, _)
parsePlainText(e) ==
  CASE e.type \in {"link", "em", "strong", "del"} -> PlainTextChildren(e.tokens, 1)
    [] e.type = "br" -> <<>>
    [] e.type = "image" -> <<Coalesce(e.title, e.href)>>
    [] e.type \in {"codespan", "text", "html"} -> <<e.raw>>

PlainTextChildren(toks, k) ==
  IF k > Len(toks) THEN <<>>
  ELSE parsePlainText(toks[k]) \o PlainTextChildren(toks, k + 1)

RECURSIVE parseMrkdwn(_), MrkdwnChildren(_, _)
parseMrkdwn(e) ==
  CASE e.type = "link" ->
         <<"<">> \o e.href \o <<"|">> \o MrkdwnChildren(e.tokens, 1) \o <<">", " ">>
    [] e.type = "em" -> <<"_">> \o MrkdwnChildren(e.tokens, 1) \o <<"_">>
    [] e.type = "codespan" -> <<Backtick>> \o e.text \o <<Backtick>>
    [] e.type = "strong" -> <<"*">> \o MrkdwnChildren(e.tokens, 1) \o <<"*">>
    [] e.type = "text" -> e.text
    [] e.type = "del" -> <<"~">> \o MrkdwnChildren(e.tokens, 1) \o <<"~">>
    [] OTHER -> <<>>

MrkdwnChildren(toks, k) ==
  IF k > Len(toks) THEN <<>>
  ELSE parseMrkdwn(toks[k]) \o MrkdwnChildren(toks, k + 1)

----------------------------------------------------------------------------
(* The phrasing accumulator and the synchronous block converters.          *)
(* A converter that dereferences a missing field throws a TypeError; the   *)
(* ...Throws predicates say when, the converter's value is read otherwise. *)

Last(seq) == seq[Len(seq)]

addMrkdwnNoMerge(content, accumulator) == Append(accumulator, section(content))

addMrkdwn(content, accumulator) ==
  IF accumulator # <<>> /\ isSectionBlock(Last(accumulator))
  THEN [accumulator EXCEPT ![Len(accumulator)].text = @ \o content]
  ELSE Append(accumulator, section(content))

parsePhrasingContentToStrings(e, accumulator) ==
  IF e.type = "image"
  THEN Append(accumulator,
              Coalesce(e.href, Coalesce(e.title, Coalesce(e.text, <<"i","m","a","g","e">>))))
  ELSE Append(accumulator, parseMrkdwn(e))

parsePhrasingContent(e, accumulator) ==
  IF e.type = "image"
  THEN Append(accumulator, image(e.href, OrElse(e.text, OrElse(e.title, e.href)), e.title))
  ELSE addMrkdwn(parseMrkdwn(e), accumulator)

RECURSIVE ReducePhrasing(_, _, _)
ReducePhrasing(toks, k, accumulator) ==
  IF k > Len(toks) THEN accumulator
  ELSE ReducePhrasing(toks, k + 1, parsePhrasingContent(toks[k], accumulator))

parseParagraphThrows(e) == ~Has(e, "tokens")

parseParagraph(e) == ReducePhrasing(e.tokens, 1, <<>>)

parseHeadingThrows(e) == ~Has(e, "tokens")

parseHeading(e) == header(join(PlainTextChildren(e.tokens, 1), <<>>))

Fence == <<Backtick, Backtick, Backtick>>

parseCode(e) == section(Fence \o <<NL>> \o Interp(e.text) \o <<NL>> \o Fence)

\* the bullet U+2022 (the module is ASCII)
BulletChar == "BULLET"

Bullet == <<BulletChar, " ">>

\* options.checkboxPrefix?.(item.checked) ?? (bullet, space)
CheckboxPrefix(opts, checked) ==
  IF Has(opts, "checkboxPrefix")
  THEN Coalesce(IF checked THEN opts.checkboxPrefix.t ELSE opts.checkboxPrefix.f, Bullet)
  ELSE Bullet

\* paragraph?.text || ''
FallbackText(item) ==
  IF item.tokens = <<>> THEN <<>>
  ELSE IF Has(item.tokens[1], "text") /\ Truthy(item.tokens[1].text)
       THEN item.tokens[1].text ELSE <<>>

Usable(item) ==
  /\ item.tokens # <<>>
  /\ item.tokens[1].type = "text"
  /\ Has(item.tokens[1], "tokens")
  /\ item.tokens[1].tokens # <<>>

NonImages(toks) == SelectSeq(toks, LAMBDA child : child.type # "image")

ItemText(item) == MrkdwnChildren(NonImages(item.tokens[1].tokens), 1)

\* The map callback of parseList on items[k], entered with the counter at
\* index: the line it returns and the counter it leaves.
ListItem(e, opts, k, index) ==
  LET item == e.items[k] IN
  IF ~Usable(item) THEN [line |-> FallbackText(item), index |-> index]
  ELSE IF e.ordered
       THEN [line |-> numberToString(index + 1) \o <<".", " ">> \o ItemText(item),
             index |-> index + 1]
  ELSE IF Has(item, "checked")
       THEN [line |-> CheckboxPrefix(opts, item.checked) \o ItemText(item), index |-> index]
  ELSE [line |-> Bullet \o ItemText(item), index |-> index]

RECURSIVE ListContents(_, _, _, _)
ListContents(e, opts, k, index) ==
  IF k > Len(e.items) THEN <<>>
  ELSE LET r == ListItem(e, opts, k, index)
       IN <<r.line>> \o ListContents(e, opts, k + 1, r.index)

parseListThrows(e) ==
  \/ ~Has(e, "items")
  \/ \E k \in 1..Len(e.items) : ~Has(e.items[k], "tokens")

parseList(e, opts) == section(join(ListContents(e, opts, 1, 0), <<NL>>))

combineBetweenPipes(texts) == <<"|", " ">> \o join(texts, <<" ", "|", " ">>) \o <<" ", "|">>

RECURSIVE CellStrings(_, _, _)
CellStrings(toks, k, accumulator) ==
  IF k > Len(toks) THEN accumulator
  ELSE CellStrings(toks, k + 1, parsePhrasingContentToStrings(toks[k], accumulator))

parseTableCell(cell) == join(CellStrings(cell.tokens, 1, <<>>), <<" ">>)

parseTableRow(row) == [k \in 1..Len(row) |-> parseTableCell(row[k])]

Dashes(n) == [k \in 1..n |-> <<"-", "-", "-">>]

\* The forEach of parseTableRows from the row at position k (1-based; the
\* source's index is k - 1).
RECURSIVE TableRowsFrom(_, _)
TableRowsFrom(rows, k) ==
  IF k > Len(rows) THEN <<>>
  ELSE LET parsedCells == parseTableRow(rows[k]) IN
       (IF k - 1 = 1 THEN <<combineBetweenPipes(Dashes(Len(parsedCells)))>> ELSE <<>>)
       \o <<combineBetweenPipes(parsedCells)>>
       \o TableRowsFrom(rows, k + 1)

parseTableRows(rows) == TableRowsFrom(rows, 1)

parseTableThrows(e) == ~Has(e, "header") \/ ~Has(e, "rows")

parseTable(e) ==
  section(Fence \o <<NL>> \o join(parseTableRows(<<e.header>> \o e.rows), <<NL>>)
          \o <<NL>> \o Fence)

QuoteBlock(block) ==
  IF isSectionBlock(block) /\ includes(block.text, NL)
  THEN [block EXCEPT !.text = <<">", " ">> \o replaceAll(@, NL, <<NL, ">", " ">>)]
  ELSE block

QuoteParagraph(p) == LET bs == parseParagraph(p) IN [k \in 1..Len(bs) |-> QuoteBlock(bs[k])]

ParagraphsOf(toks) == SelectSeq(toks, LAMBDA child : child.type = "paragraph")

parseBlockquoteThrows(e) ==
  \/ ~Has(e, "tokens")
  \/ \E k \in 1..Len(e.tokens) :
       e.tokens[k].type = "paragraph" /\ parseParagraphThrows(e.tokens[k])

parseBlockquote(e) ==
  LET ps == ParagraphsOf(e.tokens) IN flat([k \in 1..Len(ps) |-> QuoteParagraph(ps[k])])

parseThematicBreak == divider

----------------------------------------------------------------------------
(* The syntactic stage of the image gate.                                  *)

LowerLetters ==
  <<"a","b","c","d","e","f","g","h","i","j","k","l","m",
    "n","o","p","q","r","s","t","u","v","w","x","y","z">>

UpperLetters ==
  <<"A","B","C","D","E","F","G","H","I","J","K","L","M",
    "N","O","P","Q","R","S","T","U","V","W","X","Y","Z">>

IsUpper(c) == \E k \in 1..Len(UpperLetters) : UpperLetters[k] = c

IsAlpha(c) == IsUpper(c) \/ \E k \in 1..Len(LowerLetters) : LowerLetters[k] = c

IsSchemeChar(c) == IsAlpha(c) \/ c \in {"0","1","2","3","4","5","6","7","8","9","+","-","."}

toLowerCase(c) ==
  IF IsUpper(c)
  THEN LowerLetters[CHOOSE k \in 1..Len(UpperLetters) : UpperLetters[k] = c]
  ELSE c

\* position of the first c in s, 0 when there is none
IndexOf(s, c) ==
  IF includes(s, c) THEN CHOOSE k \in 1..Len(s) : s[k] = c /\ \A j \in 1..(k - 1) : s[j] # c
  ELSE 0

RECURSIVE TrimLeft(_)
TrimLeft(s) == IF s # <<>> /\ Head(s) = " " THEN TrimLeft(Tail(s)) ELSE s

RECURSIVE TrimRight(_)
TrimRight(s) ==
  IF s # <<>> /\ Last(s) = " " THEN TrimRight(SubSeq(s, 1, Len(s) - 1)) ELSE s

RECURSIVE SkipSlashes(_)
SkipSlashes(s) == IF s # <<>> /\ Head(s) \in {"/", "\\"} THEN SkipSlashes(Tail(s)) ELSE s

RECURSIVE HostOf(_)
HostOf(s) ==
  IF s = <<>> \/ Head(s) \in {"/", "\\", "?", "#"} THEN <<>>
  ELSE <<Head(s)>> \o HostOf(Tail(s))

SpecialSchemes ==
  { <<"h","t","t","p">>, <<"h","t","t","p","s">>, <<"f","t","p">>,
    <<"w","s">>, <<"w","s","s">> }

\* new URL(urlString).protocol, with no base URL: Nil when the constructor
\* throws (no scheme, or a special scheme with an empty or invalid host).
URLProtocol(urlString) ==
  LET t == TrimRight(TrimLeft(urlString))
      p == IndexOf(t, ":")
  IN IF p <= 1 THEN Nil
     ELSE IF ~IsAlpha(t[1]) \/ \E k \in 2..(p - 1) : ~IsSchemeChar(t[k]) THEN Nil
     ELSE LET scheme == [k \in 1..(p - 1) |-> toLowerCase(t[k])]
              host == HostOf(SkipSlashes(SubSeq(t, p + 1, Len(t))))
          IN IF scheme \in SpecialSchemes /\ (host = <<>> \/ includes(host, " "))
             THEN Nil
             ELSE scheme \o <<":">>

isValidHttpUrl(urlString) ==
  LET protocol == URLProtocol(urlString)
  IN protocol = <<"h","t","t","p",":">> \/ protocol = <<"h","t","t","p","s",":">>

isLocalOrEmbeddedPath(urlString) ==
  \/ startsWith(urlString, <<"C", ":">>)
  \/ startsWith(urlString, <<"D", ":">>)
  \/ startsWith(urlString, <<"f","i","l","e",":">>)
  \/ startsWith(urlString, <<"e","m","b","e","d","d","e","d",":">>)

\* the guard of parseHTML's continue
HtmlSkips(url) == ~Truthy(url) \/ ~isValidHttpUrl(url) \/ isLocalOrEmbeddedPath(url)

ImageSkipsLocalOnly(url) == ~Truthy(url) \/ isLocalOrEmbeddedPath(url)

\* the guard of parseToken's early return in case 'image'
ImageSkips(url) == ~Truthy(url) \/ isLocalOrEmbeddedPath(url) \/ ~isValidHttpUrl(url)

\* response.status >= 400
StatusRejects(status) == status >= 400

----------------------------------------------------------------------------
(* parseToken and parseHTML as promise state machines.  A token's promise  *)
(* is "fulfilled" with blocks, "rejected" (a synchronous TypeError inside  *)
(* the async function), or "awaiting" the probe of url (for an html token, *)
(* of the tag at position k, with the imageBlocks collected so far).       *)

Fulfilled(blocks) == [pc |-> "fulfilled", k |-> 0, blocks |-> blocks, url |-> Nil]

Rejected == [pc |-> "rejected", k |-> 0, blocks |-> <<>>, url |-> Nil]

Awaiting(k, blocks, url) == [pc |-> "awaiting", k |-> k, blocks |-> blocks, url |-> url]

\* the first tag at or after k that the for loop of parseHTML does not skip
RECURSIVE NextCandidate(_, _)
NextCandidate(tags, k) ==
  IF k > Len(tags) THEN k
  ELSE IF HtmlSkips(tags[k].src) THEN NextCandidate(tags, k + 1)
  ELSE k

\* the for loop of parseHTML, entered at tag k, run up to its next await
HtmlLoop(tags, k, imageBlocks) ==
  LET j == NextCandidate(tags, k)
  IN IF j > Len(tags) THEN Fulfilled(imageBlocks)
     ELSE Awaiting(j, imageBlocks, tags[j].src)

\* parseHTML up to its first await; token.xml is what XMLParser.parse makes
\* of element.raw: it throws, or yields the img tags (none when res.img is
\* absent)
parseHTML(token) ==
  IF token.xml.throws THEN Fulfilled(<<>>)
  ELSE IF token.xml.img = <<>> THEN Fulfilled(<<>>)
  ELSE HtmlLoop(token.xml.img, 1, <<>>)

SyncThrows(token) ==
  CASE token.type = "heading" -> parseHeadingThrows(token)
    [] token.type = "paragraph" -> parseParagraphThrows(token)
    [] token.type = "blockquote" -> parseBlockquoteThrows(token)
    [] token.type = "list" -> parseListThrows(token)
    [] token.type = "table" -> parseTableThrows(token)
    [] OTHER -> FALSE

SyncBlocks(token, opts) ==
  CASE token.type = "heading" -> <<parseHeading(token)>>
    [] token.type = "paragraph" -> parseParagraph(token)
    [] token.type = "code" -> <<parseCode(token)>>
    [] token.type = "blockquote" -> parseBlockquote(token)
    [] token.type = "list" -> <<parseList(token, opts)>>
    [] token.type = "table" -> <<parseTable(token)>>
    [] token.type = "hr" -> <<parseThematicBreak>>
    [] OTHER -> <<>>

\* parseToken up to its first await
parseToken(token, opts) ==
  IF token.type = "image"
  THEN IF ImageSkips(token.href) THEN Fulfilled(<<>>)
       ELSE Awaiting(0, <<>>, token.href)
  ELSE IF token.type = "html" THEN parseHTML(token)
  ELSE IF SyncThrows(token) THEN Rejected
  ELSE Fulfilled(SyncBlocks(token, opts))

\* the probe came back: response is TRUE for a response with the given
\* status, FALSE when axios.head rejected
Admitted(response, status) == response /\ ~StatusRejects(status)

\* parseToken / parseHTML resumed after the await, up to the next one
Resume(token, c, response, status) ==
  IF token.type = "image"
  THEN IF Admitted(response, status)
       THEN Fulfilled(<<image(c.url, OrElse(token.text, c.url), Nil)>>)
       ELSE Fulfilled(<<>>)
  ELSE LET img == token.xml.img[c.k]
           imageBlocks ==
             IF Admitted(response, status)
             THEN Append(c.blocks, image(c.url, OrElse(img.alt, c.url), Nil))
             ELSE c.blocks
       IN HtmlLoop(token.xml.img, c.k + 1, imageBlocks)

----------------------------------------------------------------------------
(* parseBlocks: tokens.map(parseToken), Promise.all, flat.                 *)

Probe(node, c) ==
  [node |-> node, k |-> c.k, url |-> c.url, pending |-> TRUE,
   response |-> FALSE, status |-> 0, early |-> FALSE]

\* axios.head as called by the token promises that are awaiting, in order
RECURSIVE Issue(_, _)
Issue(cs, i) ==
  IF i > Len(cs) THEN <<>>
  ELSE (IF cs[i].pc = "awaiting" THEN <<Probe(i, cs[i])>> ELSE <<>>) \o Issue(cs, i + 1)

StoreValueByCompletion(vals, count, i, blocks) == [vals EXCEPT ![count + 1] = blocks]

\* Promise.all's reaction to the fulfilment of promise i, count values
\* having been stored before it
StoreValue(vals, count, i, blocks) == [vals EXCEPT ![i] = blocks]

RECURSIVE StoreFulfilled(_, _, _, _)
StoreFulfilled(cs, vals, count, i) ==
  IF i > Len(cs) THEN vals
  ELSE IF cs[i].pc = "fulfilled"
       THEN StoreFulfilled(cs, StoreValue(vals, count, i, cs[i].blocks), count + 1, i + 1)
  ELSE StoreFulfilled(cs, vals, count, i + 1)

NumFulfilled(cs) == Cardinality({i \in 1..Len(cs) : cs[i].pc = "fulfilled"})

\* parseBlocks is called: every parseToken runs to its first await, in
\* token order, before anything else happens
Call ==
  /\ state = "idle"
  /\ LET cs == [i \in 1..Len(tokens) |-> parseToken(tokens[i], options)]
     IN /\ conv' = cs
        /\ probes' = Issue(cs, 1)
        /\ values' = StoreFulfilled(cs, [i \in 1..Len(tokens) |-> <<>>], 0, 1)
        /\ stored' = NumFulfilled(cs)
  /\ state' = "pending"
  /\ UNCHANGED <<tokens, options, result, element, out, applied>>

AnyRejected == \E i \in 1..Len(conv) : conv[i].pc = "rejected"

\* Promise.all rejects with the first rejection; the await in parseBlocks
\* rethrows it.  These are microtasks: they run before any response arrives.
Reject ==
  /\ state = "pending"
  /\ AnyRejected
  /\ state' = "rejected"
  /\ UNCHANGED <<tokens, options, conv, values, stored, probes, result,
                 element, out, applied>>

\* every value is in: Promise.all fulfils and parseBlocks returns blocks.flat()
Resolve ==
  /\ state = "pending"
  /\ ~AnyRejected
  /\ stored = Len(tokens)
  /\ result' = flat(values)
  /\ state' = "resolved"
  /\ UNCHANGED <<tokens, options, conv, values, stored, probes, element, out, applied>>

\* probe p settles while a probe of an earlier token is still outstanding
Overtakes(p) ==
  \E q \in 1..Len(probes) : probes[q].pending /\ probes[q].node < probes[p].node

\* probe p settles (early records whether it overtook a probe of an earlier
\* token) and the function awaiting it runs to its next await
Settle(p, response, status) ==
  /\ state \in {"pending", "rejected"}
  /\ ~(state = "pending" /\ AnyRejected)
  /\ probes[p].pending
  /\ LET i == probes[p].node
         c == Resume(tokens[i], conv[i], response, status)
         done == [probes EXCEPT ![p] = [@ EXCEPT !.pending = FALSE,
                                                 !.response = response,
                                                 !.status = status,
                                                 !.early = Overtakes(p)]]
     IN /\ conv' = [conv EXCEPT ![i] = c]
        /\ probes' = IF c.pc = "awaiting" THEN Append(done, Probe(i, c)) ELSE done
        /\ values' = IF c.pc = "fulfilled"
                     THEN StoreValue(values, stored, i, c.blocks) ELSE values
        /\ stored' = IF c.pc = "fulfilled" THEN stored + 1 ELSE stored
  /\ UNCHANGED <<tokens, options, state, result, element, out, applied>>

Statuses == {200, 400}

ProbeResponds == \E p \in 1..Len(probes) : \E status \in Statuses : Settle(p, TRUE, status)

ProbeFails == \E p \in 1..Len(probes) : Settle(p, FALSE, 0)

----------------------------------------------------------------------------
(* The synchronous converters applied to one element.                      *)

Convert(type, blocks) ==
  /\ ~applied
  /\ element.type = type
  /\ out' = blocks
  /\ applied' = TRUE
  /\ UNCHANGED <<tokens, state, conv, values, stored, probes, result, element, options>>

ConvertParagraph == Convert("paragraph", parseParagraph(element))

ConvertHeading == Convert("heading", <<parseHeading(element)>>)

ConvertCode == Convert("code", <<parseCode(element)>>)

ConvertList == Convert("list", <<parseList(element, options)>>)

ConvertTable == Convert("table", <<parseTable(element)>>)

ConvertBlockquote == Convert("blockquote", parseBlockquote(element))

----------------------------------------------------------------------------
(* Inputs.                                                                 *)

\* all sequences over S of length at most n
RECURSIVE SeqsUpTo(_, _)
SeqsUpTo(S, n) ==
  IF n = 0 THEN {<<>>}
  ELSE LET shorter == SeqsUpTo(S, n - 1)
       IN shorter \cup {Append(q, x) : q \in shorter, x \in S}

UrlHttps == <<"h","t","t","p","s",":","/","/","x","/","y">>
UrlHttp == <<"h","t","t","p",":","/","/","a">>
UrlUpper == <<"H","T","T","P",":","/","/","a">>
UrlNoHost == <<"h","t","t","p",":","/","/">>
UrlFtp == <<"f","t","p",":","/","/","a">>
UrlFile == <<"f","i","l","e",":","/","/","a">>
UrlDriveC == <<"C",":","\\","a">>
UrlDriveD == <<"D",":","/","a">>
UrlEmbedded == <<"e","m","b","e","d","d","e","d",":","a">>
UrlRelative == <<"a","/","b">>

Text(s) == [type |-> "text", raw |-> s, text |-> s]

Container(type, children) == [type |-> type, raw |-> <<>>, tokens |-> children]

Link(href, children) == [type |-> "link", raw |-> <<>>, href |-> href, tokens |-> children]

Leaf(type, s) == [type |-> type, raw |-> s, text |-> s]

Img(href, text, title) ==
  [type |-> "image", raw |-> <<>>, href |-> href, text |-> text, title |-> title]

TwoLines == <<"a", NL, "b">>

Phrasings ==
  { Text(<<"a">>), Text(<<"b">>), Text(TwoLines), Leaf("br", <<NL>>),
    Leaf("codespan", <<"c">>), Leaf("html", <<"<","i",">">>),
    Container("strong", <<Text(<<"a">>)>>),
    Container("em", <<Container("del", <<Text(<<"a">>), Text(<<"b">>)>>)>>),
    Link(UrlHttp, <<Text(<<"a">>)>>),
    Img(UrlHttps, <<"p">>, Nil), Img(UrlFile, <<>>, <<"t">>), Img(Nil, <<>>, Nil) }

Paragraph(children) == [type |-> "paragraph", tokens |-> children]

Paragraphs == {Paragraph(q) : q \in SeqsUpTo(Phrasings, MaxPhrasing)}

Headings ==
  {[type |-> "heading", tokens |-> q] :
     q \in { <<Text(<<"T">>)>>,
             <<Container("strong", <<Text(<<"T">>)>>), Leaf("br", <<NL>>), Text(<<"a">>)>>,
             <<Img(UrlHttps, <<"p">>, Nil), Leaf("codespan", <<"c">>)>>,
             <<Img(UrlHttps, <<"p">>, <<"t">>)>>, <<>> }}

Codes == {[type |-> "code", text |-> t] : t \in {<<"c">>, TwoLines, <<>>, Nil}}

QuotePhrasings == {Text(<<"a">>), Text(TwoLines), Img(UrlHttps, <<"p">>, Nil)}

QuoteChildren ==
  {Paragraph(q) : q \in SeqsUpTo(QuotePhrasings, MaxQuotePhrasing)}
    \cup {[type |-> "code", text |-> TwoLines]}

Blockquotes ==
  {[type |-> "blockquote", tokens |-> q] : q \in SeqsUpTo(QuoteChildren, MaxQuoteChildren)}

ItemTexts ==
  { [type |-> "text", raw |-> <<"a">>, text |-> <<"a">>, tokens |-> <<Text(<<"a">>)>>],
    [type |-> "text", raw |-> <<"b">>, text |-> <<"b">>,
     tokens |-> <<Img(UrlHttps, <<"p">>, Nil), Container("strong", <<Text(<<"b">>)>>)>>],
    [type |-> "text", raw |-> <<"t">>, text |-> <<"t">>],
    [type |-> "code", raw |-> <<"p">>, text |-> <<"p">>],
    [type |-> "space", raw |-> <<NL>>] }

Items ==
  {[tokens |-> <<t>>] : t \in ItemTexts}
    \cup {[tokens |-> <<>>]}
    \cup {[tokens |-> <<t>>, checked |-> b] :
            t \in {[type |-> "text", raw |-> <<"a">>, text |-> <<"a">>,
                    tokens |-> <<Text(<<"a">>)>>]},
            b \in BOOLEAN}

Lists ==
  {[type |-> "list", ordered |-> o, items |-> q] :
     o \in BOOLEAN, q \in SeqsUpTo(Items, MaxItems)}

Cells ==
  {[tokens |-> q] : q \in {<<Text(<<"a">>)>>, <<Text(<<"b">>), Img(UrlHttps, <<"p">>, Nil)>>}}

\* the rows of c cells each; marked gives every row the header's cell count
RowsOf(c) == [1..c -> Cells]

Tables ==
  UNION {{[type |-> "table", header |-> h, rows |-> q] :
            h \in RowsOf(c), q \in SeqsUpTo(RowsOf(c), MaxRows)} : c \in 1..MaxCols}

DefaultOptions == [lists |-> "default"]

CustomOptions ==
  [lists |-> "custom",
   checkboxPrefix |-> [t |-> <<"[","x","]"," ">>, f |-> Nil]]

Tag(src, alt) == [src |-> src, alt |-> alt]

Xmls ==
  { [throws |-> TRUE, img |-> <<>>],
    [throws |-> FALSE, img |-> <<>>],
    [throws |-> FALSE, img |-> <<Tag(Nil, Nil)>>],
    [throws |-> FALSE,
     img |-> <<Tag(UrlEmbedded, Nil), Tag(UrlDriveD, Nil), Tag(<<>>, Nil),
               Tag(UrlNoHost, Nil), Tag(UrlRelative, Nil), Tag(UrlUpper, <<"p">>)>>],
    [throws |-> FALSE,
     img |-> <<Tag(UrlHttps, Nil), Tag(UrlDriveC, <<"p">>), Tag(UrlHttp, <<>>)>>] }

TopUrls == {UrlHttps, UrlFtp, UrlFile, UrlDriveC, Nil}

TopLevel ==
  {[type |-> "image", raw |-> <<>>, href |-> u, text |-> <<"p">>, title |-> Nil] : u \in TopUrls}
    \cup {[type |-> "image", raw |-> <<>>, href |-> UrlHttp, text |-> <<>>, title |-> Nil]}
    \cup {[type |-> "html", raw |-> <<>>, xml |-> x] : x \in Xmls}
    \cup { [type |-> "heading", tokens |-> <<Text(<<"T">>)>>],
           [type |-> "heading"],
           Paragraph(<<Text(<<"a">>), Img(UrlHttps, <<"p">>, Nil), Text(<<"b">>)>>),
           Paragraph(<<Text(<<"a">>), Img(UrlFile, <<"p">>, Nil)>>),
           [type |-> "code", text |-> <<"c">>],
           [type |-> "blockquote",
            tokens |-> <<Paragraph(<<Text(TwoLines), Img(UrlHttp, <<>>, Nil)>>)>>],
           [type |-> "list", ordered |-> TRUE,
            items |-> <<[tokens |-> <<[type |-> "text", raw |-> <<"a">>, text |-> <<"a">>,
                                        tokens |-> <<Text(<<"a">>)>>]>>]>>],
           [type |-> "list", ordered |-> FALSE],
           [type |-> "table", header |-> <<[tokens |-> <<Text(<<"a">>)>>]>>,
            rows |-> << <<[tokens |-> <<Text(<<"b">>)>>]>> >>],
           [type |-> "hr", raw |-> <<"-","-","-">>],
           [type |-> "space", raw |-> <<NL>>] }

----------------------------------------------------------------------------
(* Specifications.                                                         *)

Idle ==
  /\ state = "idle"
  /\ conv = <<>>
  /\ values = <<>>
  /\ stored = 0
  /\ probes = <<>>
  /\ result = <<>>
  /\ out = <<>>
  /\ applied = FALSE

\* a call of parseBlocks on a token list
Init ==
  /\ Idle
  /\ tokens \in SeqsUpTo(TopLevel, MaxNodes)
  /\ options = DefaultOptions
  /\ element = [type |-> "space", raw |-> <<NL>>]

Next == Call \/ Reject \/ Resolve \/ ProbeResponds \/ ProbeFails

Spec == Init /\ [][Next]_vars

\* one element handed to its synchronous converter
InitSync ==
  /\ Idle
  /\ tokens = <<>>
  /\ \/ element \in Paragraphs \cup Headings \cup Codes \cup Blockquotes \cup Tables
        /\ options = DefaultOptions
     \/ element \in Lists /\ options \in {DefaultOptions, CustomOptions}

NextSync ==
  \/ ConvertParagraph
  \/ ConvertHeading
  \/ ConvertCode
  \/ ConvertList
  \/ ConvertTable
  \/ ConvertBlockquote

SpecSync == InitSync /\ [][NextSync]_vars

----------------------------------------------------------------------------
(* Properties.                                                             *)

IsImage(x) == x.type = "image"

RECURSIVE SplitLines(_)
SplitLines(s) ==
  LET p == IndexOf(s, NL)
  IN IF p = 0 THEN <<s>>
     ELSE <<SubSeq(s, 1, p - 1)>> \o SplitLines(SubSeq(s, p + 1, Len(s)))

Returned == state = "resolved"

\* the url passes the syntactic stage of the image gate
PassesSyntacticStage(url) ==
  /\ url # Nil
  /\ url # <<>>
  /\ isValidHttpUrl(url)
  /\ ~isLocalOrEmbeddedPath(url)

\* a probe of url completed with a status below 400
ProbedReachable(url) ==
  \E p \in 1..Len(probes) :
    /\ probes[p].url = url
    /\ ~probes[p].pending
    /\ probes[p].response
    /\ probes[p].status < 400

\* C1: the block list parseBlocks returns is the concatenation, in token
\* order, of the block lists the tokens' own promises were fulfilled with,
\* whatever the order in which the probes settled.
C1_OrderPreserved ==
  Returned => result = flat([i \in 1..Len(tokens) |-> conv[i].blocks])

\* C1 witness: parseBlocks has returned the image blocks of two tokens in
\* token order although the later token's probe settled first.
C1_Witness ==
  /\ Returned
  /\ \E p, q \in 1..Len(probes) :
       /\ probes[p].node < probes[q].node
       /\ probes[q].early
       /\ conv[probes[p].node].blocks # <<>>
       /\ conv[probes[q].node].blocks # <<>>

\* C2: every image block parseBlocks returns has a URL that passed the
\* syntactic stage, whichever surface the image came from.
C2_ImagesPassSyntacticStage ==
  Returned =>
    \A k \in 1..Len(result) :
      IsImage(result[k]) => PassesSyntacticStage(result[k].image_url)

\* C3: every image block parseBlocks returns was admitted by the liveness
\* stage: a probe of its URL was issued and completed with a status < 400.
C3_ImagesWereProbed ==
  Returned =>
    \A k \in 1..Len(result) :
      IsImage(result[k]) => ProbedReachable(result[k].image_url)

\* C4: parseBlocks never rejects, whatever the tokens.
C4_NeverRejects == state # "rejected"

\* the positions of a paragraph's phrasing at which an output block starts:
\* every image, and the first node of every maximal run of non-images
BlockStarts(toks) ==
  {a \in 1..Len(toks) : IsImage(toks[a]) \/ a = 1 \/ IsImage(toks[a - 1])}

RunEnd(toks, a) ==
  CHOOSE b \in a..Len(toks) :
    /\ \A j \in a..b : ~IsImage(toks[j])
    /\ b = Len(toks) \/ IsImage(toks[b + 1])

RunText(toks, a) == flat([j \in 1..(RunEnd(toks, a) - a + 1) |-> parseMrkdwn(toks[a + j - 1])])

StartOfBlock(toks, k) ==
  CHOOSE a \in BlockStarts(toks) : Cardinality({b \in BlockStarts(toks) : b <= a}) = k

\* C5: parseParagraph yields, in source order, one image block per image
\* node and exactly one section per maximal run of non-image nodes, whose
\* text is the concatenation of the nodes' markup; no two sections are
\* adjacent.
C5_MergeLaw ==
  (applied /\ element.type = "paragraph") =>
    LET toks == element.tokens IN
    /\ Len(out) = Cardinality(BlockStarts(toks))
    /\ \A k \in 1..Len(out) :
         LET a == StartOfBlock(toks, k) IN
         IF IsImage(toks[a])
         THEN IsImage(out[k]) /\ out[k].image_url = toks[a].href
         ELSE out[k] = [type |-> "section", text |-> RunText(toks, a)]
    /\ \A k \in 1..(Len(out) - 1) : ~(isSectionBlock(out[k]) /\ isSectionBlock(out[k + 1]))

\* C5 witness: a run of two non-image nodes merged into one section,
\* followed by the image that ends the run.
C5_Witness ==
  /\ applied
  /\ element.type = "paragraph"
  /\ Len(element.tokens) = 3
  /\ ~IsImage(element.tokens[1])
  /\ ~IsImage(element.tokens[2])
  /\ IsImage(element.tokens[3])
  /\ Len(out) = 2
  /\ out[1] = [type |-> "section", text |-> <<"a", "b">>]
  /\ IsImage(out[2])

\* C6: for an ordered list of n items, parseList yields n lines and the
\* i-th line begins with "i. ".
C6_OrderedNumbering ==
  (applied /\ element.type = "list" /\ element.ordered /\ element.items # <<>>) =>
    LET lines == SplitLines(out[1].text) IN
    /\ Len(lines) = Len(element.items)
    /\ \A i \in 1..Len(lines) : startsWith(lines[i], numberToString(i) \o <<".", " ">>)

PipeRow(row) == combineBetweenPipes([k \in 1..Len(row) |-> parseTableCell(row[k])])

\* C7: for a table with c header columns and r >= 0 body rows, the fenced
\* content is r + 2 lines: the header row, a separator of c '---' cells,
\* the body rows in order.
C7_TableLines ==
  (applied /\ element.type = "table") =>
    LET lines == SplitLines(out[1].text)
        c == Len(element.header)
        r == Len(element.rows)
    IN /\ Len(lines) = r + 4
       /\ lines[1] = Fence
       /\ lines[r + 4] = Fence
       /\ lines[2] = PipeRow(element.header)
       /\ lines[3] = combineBetweenPipes([k \in 1..c |-> <<"-", "-", "-">>])
       /\ \A j \in 1..r : lines[j + 3] = PipeRow(element.rows[j])

PrefixLines(text) ==
  LET lines == SplitLines(text)
  IN join([k \in 1..Len(lines) |-> <<">", " ">> \o lines[k]], <<NL>>)

\* C8: parseBlockquote yields the blocks of its paragraphs, in order; a
\* section whose text holds a newline has every line prefixed with "> ",
\* a section without newline and an image block are left as they are.
C8_QuotePrefix ==
  (applied /\ element.type = "blockquote") =>
    LET ps == SelectSeq(element.tokens, LAMBDA child : child.type = "paragraph")
        orig == flat([k \in 1..Len(ps) |-> parseParagraph(ps[k])])
    IN /\ Len(out) = Len(orig)
       /\ \A k \in 1..Len(orig) :
            IF orig[k].type = "section" /\ \E j \in 1..Len(orig[k].text) : orig[k].text[j] = NL
            THEN out[k] = [type |-> "section", text |-> PrefixLines(orig[k].text)]
            ELSE out[k] = orig[k]

\* C8 witness: a blockquote whose output holds a three-line section, every
\* line prefixed, and a single-line section left unprefixed.
C8_Witness ==
  /\ applied
  /\ element.type = "blockquote"
  /\ \E k \in 1..Len(out) :
       out[k] = [type |-> "section",
                 text |-> <<">"," ","a",NL,">"," ","b","a",NL,">"," ","b">>]
  /\ \E k \in 1..Len(out) : out[k] = [type |-> "section", text |-> <<"a">>]

\* C9: a probe is only ever issued for a URL that passed the syntactic
\* stage, and no candidate (token, tag) is probed twice.
C9_GateBeforeProbe ==
  /\ \A p \in 1..Len(probes) : PassesSyntacticStage(probes[p].url)
  /\ \A p, q \in 1..Len(probes) :
       (probes[p].node = probes[q].node /\ probes[p].k = probes[q].k) => p = q

\* C9 witness: parseBlocks has returned; an image with a URL the syntactic
\* stage rejects was among the tokens, and a probe failed and was not
\* retried.
C9_Witness ==
  /\ Returned
  /\ \E i \in 1..Len(tokens) :
       /\ tokens[i].type = "image"
       /\ ~PassesSyntacticStage(tokens[i].href)
       /\ \A p \in 1..Len(probes) : probes[p].node # i
  /\ \E p \in 1..Len(probes) : ~probes[p].pending /\ ~probes[p].response

NoProbeOutstanding == \A p \in 1..Len(probes) : ~probes[p].pending

\* C10: parseBlocks returns only when no probe is outstanding, and once
\* every issued probe has settled and nothing is left to run, it has
\* returned its block list.
C10_ReturnsAfterProbes ==
  /\ Returned => NoProbeOutstanding
  /\ (state # "idle" /\ NoProbeOutstanding /\ ~ENABLED Next) => Returned

====
